---- MODULE Spec2Model ----
(***************************************************************************)
(* A model of Sas2DypdlTransformer (src/pddl2dypdl/sas2dypdl.py): the SAS+ *)
(* parser run by the constructor, the axiom stratifier, and the encoder    *)
(* that lowers the parsed task into a didppy Model.                        *)
(*                                                                         *)
(* A SAS+ document is read one block per step.  A Python dict is a         *)
(* sequence of <<key, value>> pairs in insertion order, a Python set a     *)
(* set.  An exception is the record [type, names] held in `raised`.        *)
(***************************************************************************)
EXTENDS Integers, Sequences, FiniteSets, TLC

VARIABLES
    self,      \* the transformer object: its attributes, the Model included
    pc,        \* where the caller of the object stands
    doc,       \* the blocks of the document the parser has consumed
    cur_V,     \* _handle_axioms: the layers of the previous round
    new_V,     \* _handle_axioms: the layers of this round
    rounds,    \* _handle_axioms: iterations of the relaxation loop so far
    calls,     \* how often transform() has been called
    raised     \* the exception that ended the last operation, if any

vars == <<self, pc, doc, cur_V, new_V, rounds, calls, raised>>

----------------------------------------------------------------------------
\* Bounds of the model.

MaxVars == 2          \* variables a document declares
MaxBlocks == 4        \* blocks of a document that are read
MaxPairs == 2         \* precondition pairs, effect records, goal pairs of a block
MaxHeads == 3         \* axiom heads of a stratified rule set
MaxOps == 2           \* operators of a lowered document
MaxCalls == 2         \* calls of transform() on one object
MaxRounds == 6        \* rounds of the relaxation loop that are followed
MaxAxioms == 3        \* rules of a rule set that is given definitions

DONT_CARE == -1

\* Python's None, as the first cur_V holds it: equal to no layer.
None == -2

----------------------------------------------------------------------------
\* Python dicts: sequences of <<key, value>>, keys unique, insertion order.

Keys(d) == {d[i][1] : i \in 1..Len(d)}

HasKey(d, k) == \E i \in 1..Len(d) : d[i][1] = k

Get(d, k) == d[CHOOSE i \in 1..Len(d) : d[i][1] = k][2]

\* d[k] = v: an existing key keeps its place, a new key goes last.
Put(d, k, v) ==
    IF HasKey(d, k)
    THEN [i \in 1..Len(d) |-> IF d[i][1] = k THEN <<k, v>> ELSE d[i]]
    ELSE Append(d, <<k, v>>)

NoError == [type |-> "", names |-> {}]

Error(t) == [type |-> t, names |-> {}]

\* f"var{i}"
VarNames == <<"var0", "var1", "var2", "var3", "var4", "var5">>

VarName(i) == VarNames[i + 1]

----------------------------------------------------------------------------
\* The didppy Model, as far as the transformer drives it.

EmptyModel == [int_vars |-> <<>>, bool_funs |-> <<>>,
               transitions |-> <<>>, base_cases |-> <<>>]

\* The object after lines 36-39 and 51-57, before the first line is read.
FreshSelf ==
    [detected_axioms |-> FALSE,
     detected_conditional_effects |-> FALSE,
     model |-> EmptyModel,
     init |-> <<>>,
     goal |-> <<>>,
     variables |-> <<>>,
     rules |-> <<>>,
     operators |-> <<>>,
     axiom_heads |-> <<>>,
     axiom_edges |-> <<>>,
     didp_variables |-> <<>>]

----------------------------------------------------------------------------
\* Blocks of a document.  Every block carries every field, so that the
\* parser's input has one shape; a kind reads only its own fields.
\*   name     the name line (variable, operator)
\*   layer    the axiom-layer line (variable)
\*   values   the value labels (variable), by the prefix the parser tests
\*   vals     the value lines (state)
\*   pairs    the "var val" lines (rule, operator, goal)
\*   head     the "var old new" line (rule)
\*   effects  the "cond var pre post" lines (operator)
\*   cost     the cost line as the fraction num/den (operator)
\*   end      whether the line after the block's body is its end_X line
\*   eof      whether the document ends with the block's body, so that there
\*            is no line after it (then end is FALSE)

Block(kind, name, layer, values, vals, pairs, head, effects, cost, end) ==
    [kind |-> kind, name |-> name, layer |-> layer, values |-> values,
     vals |-> vals, pairs |-> pairs, head |-> head, effects |-> effects,
     cost |-> cost, end |-> end, eof |-> FALSE]

\* The block b when the document ends with its body: get_line() returns
\* None where the end_X line is read (lines 64-65).
Truncated(b) == [b EXCEPT !.end = FALSE, !.eof = TRUE]

NoBlock == Block("none", "", 0, <<>>, <<>>, <<>>, <<0, 0, 0>>, <<>>,
                 [num |-> 0, den |-> 1], TRUE)

VariableBlock(name, layer, values, end) ==
    Block("variable", name, layer, values, <<>>, <<>>, <<0, 0, 0>>, <<>>,
          [num |-> 0, den |-> 1], end)

StateBlock(vals, end) ==
    Block("state", "", 0, <<>>, vals, <<>>, <<0, 0, 0>>, <<>>,
          [num |-> 0, den |-> 1], end)

GoalBlock(pairs, end) ==
    Block("goal", "", 0, <<>>, <<>>, pairs, <<0, 0, 0>>, <<>>,
          [num |-> 0, den |-> 1], end)

RuleBlock(pairs, head, end) ==
    Block("rule", "", 0, <<>>, <<>>, pairs, head, <<>>,
          [num |-> 0, den |-> 1], end)

OperatorBlock(name, pairs, effects, cost, end) ==
    Block("operator", name, 0, <<>>, <<>>, pairs, <<0, 0, 0>>, effects,
          cost, end)

\* A line the loop matches against no begin_X (version, metric, mutex lines).
OtherLine == Block("other", "", 0, <<>>, <<>>, <<>>, <<0, 0, 0>>, <<>>,
                   [num |-> 0, den |-> 1], TRUE)

----------------------------------------------------------------------------
\* _parse: one operator per branch of the loop.  Each returns the object
\* and the exception raised, if any.

Ok(s) == [self |-> s, exc |-> NoError]

Fail(s, t) == [self |-> s, exc |-> Error(t)]

\* begin_variable, lines 71-83.
ParseVariable(s, b) ==
    LET i == Len(s.variables) IN
    IF ~b.end THEN Fail(s, "AssertionError")
    ELSE IF VarName(i) # b.name THEN Fail(s, "AssertionError")
    ELSE Ok([s EXCEPT !.variables =
                Append(@, [name |-> b.name, values |-> b.values,
                           axiom_layer |-> b.layer])])

\* Line 93 tests the token, a str, against the int keys of the dict: a str
\* equals no int, so the test finds no key.
RuleKeySeen(var_index, preconditions) == FALSE

\* Lines 89-94: the precondition pairs of a rule.
RECURSIVE RulePreconditions(_, _)
RulePreconditions(pairs, preconditions) ==
    IF pairs = <<>> THEN [d |-> preconditions, ok |-> TRUE]
    ELSE IF RuleKeySeen(Head(pairs)[1], preconditions)
         THEN [d |-> preconditions, ok |-> FALSE]
         ELSE RulePreconditions(Tail(pairs),
                                Put(preconditions, Head(pairs)[1], Head(pairs)[2]))

\* begin_rule, lines 84-114.
ParseRule(s, b) ==
    LET s1 == [s EXCEPT !.detected_axioms = TRUE]
        pre == RulePreconditions(b.pairs, <<>>)
        var == b.head[1]
        val == b.head[3]
        rule == [preconditions |-> pre.d, var |-> var, val |-> val]
        s2 == [s1 EXCEPT !.rules = Append(@, rule)]
        heads == IF HasKey(s2.axiom_heads, var)
                 THEN Put(s2.axiom_heads, var, Append(Get(s2.axiom_heads, var), rule))
                 ELSE Put(s2.axiom_heads, var, <<rule>>)
        edges == IF HasKey(s2.axiom_edges, var)
                 THEN Put(s2.axiom_edges, var, Get(s2.axiom_edges, var) \cup Keys(pre.d))
                 ELSE Put(s2.axiom_edges, var, Keys(pre.d))
    IN
    IF ~pre.ok THEN Fail(s1, "AssertionError")
    ELSE IF var + 1 \notin 1..Len(s1.variables) THEN Fail(s1, "KeyError")
    ELSE IF Len(s1.variables[var + 1].values) # 2 THEN Fail(s1, "AssertionError")
    ELSE IF s1.variables[var + 1].values[1] # "Atom" THEN Fail(s1, "AssertionError")
    ELSE IF s1.variables[var + 1].values[2] # "NegatedAtom" THEN Fail(s1, "AssertionError")
    ELSE IF val # 0 THEN Fail(s1, "AssertionError")
    ELSE IF ~b.end THEN Fail(s2, "AssertionError")
    ELSE Ok([s2 EXCEPT !.axiom_heads = heads, !.axiom_edges = edges])

\* Lines 118-124: the precondition pairs of an operator.
RECURSIVE OperatorPreconditions(_, _)
OperatorPreconditions(pairs, preconditions) ==
    IF pairs = <<>> THEN [d |-> preconditions, ok |-> TRUE]
    ELSE IF HasKey(preconditions, Head(pairs)[1])
         THEN [d |-> preconditions, ok |-> FALSE]
         ELSE OperatorPreconditions(Tail(pairs),
                                    Put(preconditions, Head(pairs)[1], Head(pairs)[2]))

\* No effect record is taken for guarded.
GuardedNever(e) == FALSE

\* Lines 133-136: an effect record with a guard is flagged and left out.
Guarded(e) == e[1] # 0

\* Lines 126-140: the effect records of an operator; e = <<cond, var, pre, post>>.
RECURSIVE OperatorEffects(_, _, _, _)
OperatorEffects(records, preconditions, effects, cond_seen) ==
    IF records = <<>>
    THEN [pre |-> preconditions, eff |-> effects, cond |-> cond_seen, ok |-> TRUE]
    ELSE LET e == Head(records) IN
         IF Guarded(e)
         THEN OperatorEffects(Tail(records), preconditions, effects, TRUE)
         ELSE IF HasKey(preconditions, e[2]) \/ HasKey(effects, e[2])
              THEN [pre |-> preconditions, eff |-> effects, cond |-> cond_seen,
                    ok |-> FALSE]
              ELSE OperatorEffects(Tail(records), Put(preconditions, e[2], e[3]),
                                   Put(effects, e[2], e[4]), cond_seen)

\* round(): to the nearest integer, a tie to the even one.  c = num/den with
\* den 1 or 2, which a float holds exactly.
Round(c) ==
    IF c.den = 1 THEN c.num
    ELSE IF c.num % 2 = 0 THEN c.num \div 2
    ELSE LET lo == (c.num - 1) \div 2 IN IF lo % 2 = 0 THEN lo ELSE lo + 1

\* Line 142: int(round(cost)) == float(cost).
CostAccepted(c) == Round(c) * c.den = c.num

\* begin_operator, lines 115-145.
ParseOperator(s, b) ==
    LET pre == OperatorPreconditions(b.pairs, <<>>)
        eff == OperatorEffects(b.effects, pre.d, <<>>,
                               s.detected_conditional_effects)
        s1 == [s EXCEPT !.detected_conditional_effects = eff.cond]
        op == [name |-> b.name, preconditions |-> eff.pre,
               effects |-> eff.eff, cost |-> Round(b.cost)]
        s2 == [s1 EXCEPT !.operators = Append(@, op)]
    IN
    IF ~pre.ok THEN Fail(s, "AssertionError")
    ELSE IF ~eff.ok THEN Fail(s1, "AssertionError")
    ELSE IF ~CostAccepted(b.cost) THEN Fail(s1, "AssertionError")
    ELSE IF ~b.end THEN Fail(s2, "AssertionError")
    ELSE Ok(s2)

\* Lines 148-153: the goal pairs.
RECURSIVE GoalPairs(_, _)
GoalPairs(pairs, goal) ==
    IF pairs = <<>> THEN [d |-> goal, ok |-> TRUE]
    ELSE IF HasKey(goal, Head(pairs)[1])
         THEN [d |-> goal, ok |-> FALSE]
         ELSE GoalPairs(Tail(pairs), Put(goal, Head(pairs)[1], Head(pairs)[2]))

\* begin_goal, lines 146-154.
ParseGoal(s, b) ==
    LET g == GoalPairs(b.pairs, s.goal) IN
    IF ~g.ok THEN Fail([s EXCEPT !.goal = g.d], "AssertionError")
    ELSE IF ~b.end THEN Fail([s EXCEPT !.goal = g.d], "AssertionError")
    ELSE Ok([s EXCEPT !.goal = g.d])

\* Lines 156-158: one value line per variable declared so far.
RECURSIVE StateValues(_, _, _)
StateValues(vals, var, init) ==
    IF vals = <<>> THEN init
    ELSE StateValues(Tail(vals), var + 1, Put(init, var, Head(vals)))

\* begin_state, lines 155-159.  With too few value lines the line after
\* them is read as a value, after the values before it are stored: int()
\* raises ValueError on a line, TypeError on the None of the document's
\* end.  With too many, a value line is read as the end_state line.
ParseState(s, b) ==
    LET n == Len(s.variables) IN
    IF Len(b.vals) < n
    THEN Fail([s EXCEPT !.init = StateValues(b.vals, 0, @)],
              IF b.eof THEN "TypeError" ELSE "ValueError")
    ELSE IF Len(b.vals) > n \/ ~b.end
         THEN Fail([s EXCEPT !.init = StateValues(SubSeq(b.vals, 1, n), 0, @)],
                   "AssertionError")
    ELSE Ok([s EXCEPT !.init = StateValues(b.vals, 0, @)])

\* One iteration of the loop of lines 67-159 on a block.
ParseBlock(s, b) ==
    CASE b.kind = "variable" -> ParseVariable(s, b)
      [] b.kind = "rule" -> ParseRule(s, b)
      [] b.kind = "operator" -> ParseOperator(s, b)
      [] b.kind = "goal" -> ParseGoal(s, b)
      [] b.kind = "state" -> ParseState(s, b)
      [] OTHER -> Ok(s)

----------------------------------------------------------------------------
\* The encoder.  A handle is what a Model call returns: the id-th integer
\* variable or the id-th boolean state function.  A condition is
\*   [op |-> "eq"]   handle == val
\*   [op |-> "ref"]  the boolean state function itself
\*   [op |-> "not"]  ~ the boolean state function

IntVar(id) == [k |-> "int", id |-> id]

BoolFun(id) == [k |-> "fun", id |-> id]

Eq(h, val) == [op |-> "eq", h |-> h, val |-> val]

Ref(h) == [op |-> "ref", h |-> h, val |-> 0]

Not(h) == [op |-> "not", h |-> h, val |-> 0]

\* Model.add_int_var, called at line 168.  didppy raises RuntimeError for a
\* name the Model already uses.
NameUsed(model, name) == \E k \in 1..Len(model.int_vars) : model.int_vars[k].name = name

add_int_var(model, name, target) ==
    [model EXCEPT !.int_vars = Append(@, [name |-> name, target |-> target])]

\* Model.add_bool_state_fun, called at line 248.
add_bool_state_fun(model, trigger) ==
    [model EXCEPT !.bool_funs = Append(@, trigger)]

\* Model.add_transition, called at line 272.
add_transition(model, transition) ==
    [model EXCEPT !.transitions = Append(@, transition)]

\* Model.add_base_case, called at line 285.
add_base_case(model, base_case) ==
    [model EXCEPT !.base_cases = Append(@, base_case)]

\* Lines 165-169, from variable i on.
RECURSIVE HandleVariablesFrom(_, _)
HandleVariablesFrom(s, i) ==
    IF i >= Len(s.variables) THEN Ok(s)
    ELSE IF HasKey(s.axiom_heads, i) THEN HandleVariablesFrom(s, i + 1)
    ELSE IF ~HasKey(s.init, i) THEN Fail(s, "KeyError")
    ELSE IF NameUsed(s.model, s.variables[i + 1].name) THEN Fail(s, "RuntimeError")
    ELSE HandleVariablesFrom(
            [s EXCEPT !.model = add_int_var(@, s.variables[i + 1].name, Get(s.init, i)),
                      !.didp_variables = Put(@, i, IntVar(Len(s.model.int_vars)))],
            i + 1)

\* _handle_variables, lines 161-169.
HandleVariables(s) == HandleVariablesFrom([s EXCEPT !.didp_variables = <<>>], 0)

\* No precondition entry is skipped.
UnconstrainedNever(val) == FALSE

\* Line 255: a precondition entry that constrains nothing.
Unconstrained(val) == val = DONT_CARE

\* Lines 257-260: the condition of one precondition entry of an operator.
OperatorCondition(s, var, val) ==
    IF ~HasKey(s.axiom_heads, var)
    THEN Eq(Get(s.didp_variables, var), val)
    ELSE Ref(Get(s.didp_variables, var))

\* Lines 253-260.
RECURSIVE OperatorConditions(_, _, _)
OperatorConditions(s, entries, conds) ==
    IF entries = <<>> THEN [list |-> conds, exc |-> NoError]
    ELSE LET var == Head(entries)[1]
             val == Head(entries)[2]
         IN
         IF Unconstrained(val) THEN OperatorConditions(s, Tail(entries), conds)
         ELSE IF ~HasKey(s.didp_variables, var)
              THEN [list |-> conds, exc |-> Error("KeyError")]
         ELSE OperatorConditions(s, Tail(entries),
                                 Append(conds, OperatorCondition(s, var, val)))

\* Lines 261-264.
RECURSIVE OperatorAssignments(_, _, _)
OperatorAssignments(s, entries, effects) ==
    IF entries = <<>> THEN [list |-> effects, exc |-> NoError]
    ELSE LET var == Head(entries)[1]
             val == Head(entries)[2]
         IN
         IF HasKey(s.axiom_heads, var)
         THEN [list |-> effects, exc |-> Error("AssertionError")]
         ELSE IF ~HasKey(s.didp_variables, var)
              THEN [list |-> effects, exc |-> Error("KeyError")]
         ELSE OperatorAssignments(s, Tail(entries),
                                  Append(effects, <<Get(s.didp_variables, var), val>>))

\* Line 267: op.cost + dp.IntExpr.state_cost().
TransitionCost(op) == [add |-> op.cost, state_cost |-> TRUE]

\* Lines 252-272, from operator k on.
RECURSIVE HandleOperatorsFrom(_, _)
HandleOperatorsFrom(s, k) ==
    IF k > Len(s.operators) THEN Ok(s)
    ELSE LET op == s.operators[k]
             pre == OperatorConditions(s, op.preconditions, <<>>)
             eff == OperatorAssignments(s, op.effects, <<>>)
             didp_action == [name |-> op.name, cost |-> TransitionCost(op),
                             preconditions |-> pre.list, effects |-> eff.list]
         IN
         IF pre.exc # NoError THEN [self |-> s, exc |-> pre.exc]
         ELSE IF eff.exc # NoError THEN [self |-> s, exc |-> eff.exc]
         ELSE HandleOperatorsFrom(
                 [s EXCEPT !.model = add_transition(@, didp_action)], k + 1)

\* _handle_operators, lines 250-272.
HandleOperators(s) == HandleOperatorsFrom(s, 1)

\* Lines 277-284: the condition of one goal entry.
GoalCondition(s, var, val) ==
    IF HasKey(s.axiom_heads, var)
    THEN IF val = 1 THEN Ref(Get(s.didp_variables, var))
         ELSE Not(Get(s.didp_variables, var))
    ELSE Eq(Get(s.didp_variables, var), val)

\* Lines 276-284.
RECURSIVE GoalConditions(_, _, _)
GoalConditions(s, entries, base_case) ==
    IF entries = <<>> THEN [list |-> base_case, exc |-> NoError]
    ELSE LET var == Head(entries)[1]
             val == Head(entries)[2]
         IN
         IF HasKey(s.axiom_heads, var) /\ val # 1 /\ val # 0
         THEN [list |-> base_case, exc |-> Error("AssertionError")]
         ELSE IF ~HasKey(s.didp_variables, var)
              THEN [list |-> base_case, exc |-> Error("KeyError")]
         ELSE GoalConditions(s, Tail(entries),
                             Append(base_case, GoalCondition(s, var, val)))

\* _handle_goal, lines 274-285.
HandleGoal(s) ==
    LET g == GoalConditions(s, s.goal, <<>>) IN
    IF g.exc # NoError THEN [self |-> s, exc |-> g.exc]
    ELSE Ok([s EXCEPT !.model = add_base_case(@, g.list)])

\* A gate that looks at the axiom flag alone.
UnsupportedAxiomsOnly(s) == s.detected_axioms

\* Line 288: what makes transform() refuse the task.
Unsupported(s) == s.detected_axioms \/ s.detected_conditional_effects

\* Line 289: the features the message names, "Axioms and conditional effects
\* are not yet supported.", whatever was detected.
UnsupportedError ==
    [type |-> "NotImplementedError", names |-> {"axioms", "conditional effects"}]

\* transform, lines 287-294.
Transform(s) ==
    IF Unsupported(s) THEN [self |-> s, exc |-> UnsupportedError]
    ELSE LET v == HandleVariables(s) IN
         IF v.exc # NoError THEN v
         ELSE LET o == HandleOperators(v.self) IN
              IF o.exc # NoError THEN o
              ELSE HandleGoal(o.self)

----------------------------------------------------------------------------
\* _handle_axioms: the stratifier.  Layers are dicts over the axiom heads.

\* Lines 178-179: cur_V holds None, new_V holds 0, for every head.
Layers(edges, v) == [i \in 1..Len(edges) |-> <<edges[i][1], v>>]

\* is_diff, lines 181-185.
is_diff(cur, new) == \E i \in 1..Len(cur) : Get(new, cur[i][1]) # cur[i][2]

Max(S) == CHOOSE x \in S : \A y \in S : y <= x

Min(S) == CHOOSE x \in S : \A y \in S : x <= y

\* A head takes the largest layer of its body, without the step above it.
LayerUpdateFlat(body, cur) ==
    Max({1} \cup {Get(cur, i) : i \in {j \in body : HasKey(cur, j)}})

\* Lines 190-193: the layer of a head with this body, from the layers cur.
LayerUpdate(body, cur) ==
    Max({1} \cup {Get(cur, i) + 1 : i \in {j \in body : HasKey(cur, j)}})

\* Lines 188-194: one round of the loop; the new new_V.
Relax(edges, cur) ==
    [i \in 1..Len(edges) |-> <<edges[i][1], LayerUpdate(edges[i][2], cur)>>]

\* A trigger is the disjunction of its bodies, each the conjunction of its
\* atoms in rule order; the trivial trigger is TRUE (line 173, var == var).
TrueTrigger == [trivial |-> TRUE, bodies |-> <<>>]

\* get_atom without the negation of lines 228-231.
AtomUnsigned(s, var, val) ==
    IF ~HasKey(s.axiom_heads, var) THEN Eq(Get(s.didp_variables, var), val)
    ELSE Ref(Get(s.didp_variables, var))

\* get_atom, lines 222-234.
Atom(s, var, val) ==
    IF ~HasKey(s.axiom_heads, var) THEN Eq(Get(s.didp_variables, var), val)
    ELSE IF val = 0 THEN Ref(Get(s.didp_variables, var))
    ELSE Not(Get(s.didp_variables, var))

\* Lines 219-239: the conjunction of one rule.
RECURSIVE RuleBody(_, _, _)
RuleBody(s, entries, body) ==
    IF entries = <<>> THEN [list |-> body, exc |-> NoError]
    ELSE LET var == Head(entries)[1]
             val == Head(entries)[2]
         IN
         IF HasKey(s.axiom_heads, var) /\ val # 0 /\ val # 1
         THEN [list |-> body, exc |-> Error("AssertionError")]
         ELSE IF ~HasKey(s.didp_variables, var)
              THEN [list |-> body, exc |-> Error("KeyError")]
         ELSE RuleBody(s, Tail(entries), Append(body, Atom(s, var, val)))

\* Lines 214-240: the rules of one head, until one has no precondition.
RECURSIVE RuleBodies(_, _, _)
RuleBodies(s, rules, bodies) ==
    IF rules = <<>> THEN [trigger |-> [trivial |-> FALSE, bodies |-> bodies],
                          exc |-> NoError]
    ELSE IF Head(rules).preconditions = <<>>
         THEN [trigger |-> TrueTrigger, exc |-> NoError]
    ELSE LET b == RuleBody(s, Head(rules).preconditions, <<>>) IN
         IF b.exc # NoError
         THEN [trigger |-> [trivial |-> FALSE, bodies |-> bodies], exc |-> b.exc]
         ELSE RuleBodies(s, Tail(rules), Append(bodies, b.list))

\* Lines 201-204: the heads of one layer, in the order of new_V.
HeadsOfLayer(layers, i) ==
    LET at == SelectSeq(layers, LAMBDA e : e[2] = i) IN
    [k \in 1..Len(at) |-> at[k][1]]

\* Lines 210-248: the heads of one layer, one boolean state function each.
RECURSIVE DefineHeads(_, _)
DefineHeads(s, heads) ==
    IF heads = <<>> THEN Ok(s)
    ELSE LET head == Head(heads)
             t == RuleBodies(s, Get(s.axiom_heads, head), <<>>)
         IN
         IF t.exc # NoError THEN [self |-> s, exc |-> t.exc]
         ELSE DefineHeads(
                 [s EXCEPT !.model = add_bool_state_fun(@, t.trigger),
                           !.didp_variables =
                               Put(@, head, BoolFun(Len(s.model.bool_funs)))],
                 Tail(heads))

\* Lines 209-248: layer i to max_val; a layer no head has is a KeyError.
RECURSIVE DefineLayers(_, _, _, _)
DefineLayers(s, layers, i, max_val) ==
    IF i > max_val THEN Ok(s)
    ELSE IF HeadsOfLayer(layers, i) = <<>> THEN Fail(s, "KeyError")
    ELSE LET d == DefineHeads(s, HeadsOfLayer(layers, i)) IN
         IF d.exc # NoError THEN d
         ELSE DefineLayers(d.self, layers, i + 1, max_val)

\* Lines 196-248: what follows the loop, given the final layers.
Define(s, layers) ==
    IF layers = <<>> THEN Ok(s)
    ELSE DefineLayers(s, layers, Min({layers[i][2] : i \in 1..Len(layers)}),
                      Max({layers[i][2] : i \in 1..Len(layers)}))

----------------------------------------------------------------------------
\* Documents.

BoolValues == <<"Atom", "NegatedAtom">>

One == [num |-> 1, den |-> 1]

\* Sequences over S of length at most n.
SeqsUpTo(S, n) == UNION {[1..k -> S] : k \in 0..n}

Zeros(n) == [i \in 1..n |-> 0]

\* The variable blocks var0 .. var(n-1), boolean each, and the state block.
Prelude(n) ==
    [i \in 1..(n + 1) |->
        IF i <= n THEN VariableBlock(VarName(i - 1), -1, BoolValues, TRUE)
        ELSE StateBlock(Zeros(n), TRUE)]

\* The loop of lines 67-159 over the blocks of a document, to the first
\* exception.
RECURSIVE ParseAll(_, _)
ParseAll(s, blocks) ==
    IF blocks = <<>> THEN Ok(s)
    ELSE LET r == ParseBlock(s, Head(blocks)) IN
         IF r.exc # NoError THEN r ELSE ParseAll(r.self, Tail(blocks))

\* The constructor is in the parse loop: the blocks d are consumed, the
\* object is s.
Start(s, d) ==
    /\ self = s
    /\ pc = "parse"
    /\ doc = d
    /\ cur_V = <<>>
    /\ new_V = <<>>
    /\ rounds = 0
    /\ calls = 0
    /\ raised = NoError

\* The kind of the block consumed last.
LastKind == IF doc = <<>> THEN "none" ELSE doc[Len(doc)].kind

\* The parser reads a block of B, after a block of one of the kinds prev.
Read(B, prev) ==
    /\ pc = "parse"
    /\ LastKind \in prev
    /\ \E b \in B :
          LET r == ParseBlock(self, b) IN
          /\ self' = r.self
          /\ raised' = r.exc
          /\ pc' = IF r.exc = NoError THEN "parse" ELSE "failed"
          /\ doc' = Append(doc, b)
    /\ UNCHANGED <<cur_V, new_V, rounds, calls>>

\* get_line() returns None: the loop ends and the constructor returns.
EndOfInput ==
    /\ pc = "parse"
    /\ pc' = "ready"
    /\ UNCHANGED <<self, doc, cur_V, new_V, rounds, calls, raised>>

\* A handler called when the caller stands at one of `from`; r is what it
\* returns.
Call(r, from, to) ==
    /\ pc \in from
    /\ self' = r.self
    /\ raised' = r.exc
    /\ pc' = IF r.exc = NoError THEN to ELSE "raised"
    /\ UNCHANGED <<doc, cur_V, new_V, rounds>>

\* transform(), on a constructed object or on one that has returned a Model.
CallTransform ==
    /\ calls < MaxCalls
    /\ Call(Transform(self), {"ready", "returned"}, "returned")
    /\ calls' = calls + 1

\* _handle_variables().
CallHandleVariables ==
    /\ Call(HandleVariables(self), {"ready"}, "variables")
    /\ UNCHANGED calls

\* _handle_axioms() up to its loop, lines 172-179.
EnterAxioms ==
    /\ pc = "variables"
    /\ IF self.didp_variables = <<>>
       THEN /\ raised' = Error("StopIteration")
            /\ pc' = "raised"
            /\ UNCHANGED <<cur_V, new_V>>
       ELSE /\ cur_V' = Layers(self.axiom_edges, None)
            /\ new_V' = Layers(self.axiom_edges, 0)
            /\ pc' = "stratify"
            /\ UNCHANGED raised
    /\ rounds' = 0
    /\ UNCHANGED <<self, doc, calls>>

\* One iteration of the loop of lines 187-194.
RelaxRound ==
    /\ pc = "stratify"
    /\ is_diff(cur_V, new_V)
    /\ rounds < MaxRounds
    /\ cur_V' = new_V
    /\ new_V' = Relax(self.axiom_edges, new_V)
    /\ rounds' = rounds + 1
    /\ UNCHANGED <<self, pc, doc, calls, raised>>

\* The loop ends and _handle_axioms() runs to its end, lines 196-248.
ExitAxioms ==
    /\ ~is_diff(cur_V, new_V)
    /\ Call(Define(self, new_V), {"stratify"}, "axioms")
    /\ UNCHANGED calls

\* _handle_operators().
CallHandleOperators ==
    /\ Call(HandleOperators(self), {"axioms"}, "operators")
    /\ UNCHANGED calls

\* _handle_goal().
CallHandleGoal ==
    /\ Call(HandleGoal(self), {"axioms"}, "goal")
    /\ UNCHANGED calls

----------------------------------------------------------------------------
\* Spec: the constructor reads a document, then the caller calls
\* transform() (src/pddl2dypdl/__main__.py, lines 84-85), possibly again.
\* Blocks come in the order the grounding tool writes them: variables,
\* state, goal, operators, rules.

PipeVariables == {VariableBlock(VarName(i), -1, BoolValues, TRUE) : i \in 0..(MaxVars - 1)}

PipeStates ==
    {StateBlock(Zeros(n), TRUE) : n \in 0..MaxVars}
        \cup {Truncated(StateBlock(Zeros(n), FALSE)) : n \in 0..MaxVars}

PipeGoals == {GoalBlock(p, TRUE) : p \in {<<>>, << <<0, 1>> >>}}

PipeOperators ==
    {OperatorBlock("a", <<>>, e, One, TRUE) :
        e \in {<<>>, << <<0, 0, -1, 1>> >>, << <<1, 0, -1, 1>> >>}}

PipeRules == {RuleBlock(p, <<0, 1, 0>>, TRUE) : p \in {<<>>, << <<1, 0>> >>}}

More == Len(doc) < MaxBlocks

ReadOther == More /\ Read({OtherLine}, {"none"})

ReadVariable == More /\ Read(PipeVariables, {"none", "other", "variable"})

ReadState == More /\ Read(PipeStates, {"none", "other", "variable"})

ReadGoal == More /\ Read(PipeGoals, {"none", "other", "variable", "state"})

ReadOperator ==
    More /\ Read(PipeOperators, {"none", "other", "variable", "state", "goal", "operator"})

ReadRule ==
    More /\ Read(PipeRules, {"none", "other", "variable", "state", "goal", "operator", "rule"})

Init == Start(FreshSelf, <<>>)

Next ==
    \/ ReadOther
    \/ ReadVariable
    \/ ReadState
    \/ ReadGoal
    \/ ReadOperator
    \/ ReadRule
    \/ EndOfInput
    \/ CallTransform

Spec == Init /\ [][Next]_vars

----------------------------------------------------------------------------
\* What a document contains, read off its blocks.

HasRuleBlock == \E i \in 1..Len(doc) : doc[i].kind = "rule"

HasGuardedEffect ==
    \E i \in 1..Len(doc) :
        /\ doc[i].kind = "operator"
        /\ \E j \in 1..Len(doc[i].effects) : doc[i].effects[j][1] # 0

\* C1: once transform() has been called on a document that parsed and holds
\* a rule block or an effect record with a guard, the call has failed with
\* the unsupported-feature error and the Model holds no state variable, no
\* state function, no transition and no base case.
C1_UnsupportedNeverBuilds ==
    (calls > 0 /\ (HasRuleBlock \/ HasGuardedEffect)) =>
        /\ pc = "raised"
        /\ raised.type = "NotImplementedError"
        /\ self.model = EmptyModel

\* C1's case: transform() has refused a document whose only unsupported
\* feature is a guarded effect, after variables, state and goal were parsed.
C1_Witness ==
    /\ calls > 0
    /\ HasGuardedEffect
    /\ ~HasRuleBlock
    /\ self.variables # <<>>
    /\ raised.type = "NotImplementedError"

\* The features detected in the document.
DetectedFeatures ==
    (IF HasRuleBlock THEN {"axioms"} ELSE {})
        \cup (IF HasGuardedEffect THEN {"conditional effects"} ELSE {})

\* C8: the unsupported-feature error names the features detected in the
\* document, those and no others.
C8_ErrorNamesDetected ==
    raised.type = "NotImplementedError" => raised.names = DetectedFeatures

\* C9: a step taken after transform() has returned the Model leaves the
\* Model as it was.
C9_ReturnedModelFrozen == [][pc = "returned" => self'.model = self.model]_vars

----------------------------------------------------------------------------
\* SpecParse: the parser, having read MaxVars boolean variables and the
\* state, reads one more block: an operator, a rule or a goal.

PairVars == {0, 1}

ParsePairs == SeqsUpTo(PairVars \X {-1, 0, 1}, MaxPairs)

ParseEffects == SeqsUpTo({0, 1} \X PairVars \X {-1, 0} \X {1}, MaxPairs)

\* Cost lines: -1, -0.5, 0, 0.5, 1, 1.0 (2/2), 1.5, 2, 2.5, ...
Costs == {[num |-> n, den |-> d] : n \in -2..5, d \in {1, 2}}

ParseOperators ==
    {OperatorBlock("a", p, e, One, TRUE) : p \in ParsePairs, e \in ParseEffects}
        \cup {OperatorBlock("a", <<>>, <<>>, c, end) : c \in Costs, end \in BOOLEAN}

ParseRules ==
    {RuleBlock(p, <<h, 1 - n, n>>, end) :
        p \in SeqsUpTo(PairVars \X {0, 1}, MaxPairs),
        h \in {0, MaxVars}, n \in {0, 1}, end \in BOOLEAN}

ParseGoals ==
    {GoalBlock(p, end) : p \in SeqsUpTo(PairVars \X {0, 1}, MaxPairs), end \in BOOLEAN}

ParseOneOperator == pc = "parse" /\ Read(ParseOperators, {"state"})

ParseOneRule == pc = "parse" /\ Read(ParseRules, {"state"})

ParseOneGoal == pc = "parse" /\ Read(ParseGoals, {"state"})

InitParse == Start(ParseAll(FreshSelf, Prelude(MaxVars)).self, Prelude(MaxVars))

NextParse ==
    \/ ParseOneOperator
    \/ ParseOneRule
    \/ ParseOneGoal
    \/ EndOfInput

SpecParse == InitParse /\ [][NextParse]_vars

\* The block consumed last, and the operator the parser built from it.
LastBlock == doc[Len(doc)]

LastOperator == self.operators[Len(self.operators)]

\* An operator block has just been parsed into an operator.
OperatorParsed == pc = "parse" /\ LastKind = "operator"

\* The variables of the effect records without a guard.
UnguardedTargets(b) == {b.effects[j][2] : j \in {k \in 1..Len(b.effects) : b.effects[k][1] = 0}}

\* C5 as stated: the precondition and effect keys of a parsed operator are
\* together the variables of its unguarded effect records whose pre-value
\* is not -1.
C5_KeysAreConstrainedEffectTargets ==
    OperatorParsed =>
        Keys(LastOperator.preconditions) \cup Keys(LastOperator.effects) =
            {LastBlock.effects[j][2] :
                j \in {k \in 1..Len(LastBlock.effects) :
                        /\ LastBlock.effects[k][1] = 0
                        /\ LastBlock.effects[k][3] # DONT_CARE}}

\* C5, amended: the precondition and effect keys of a parsed operator are
\* together the variables of its precondition pairs and of its unguarded
\* effect records, whatever their pre-value; the effect keys are the
\* variables of the unguarded effect records.  Every precondition pair is
\* an entry of the preconditions, every unguarded effect record gives the
\* effects its post-value and, when its pre-value is not -1, the
\* preconditions its pre-value.
C5_KeysAreBlockVariables ==
    OperatorParsed =>
        LET b == LastBlock
            op == LastOperator
            PairVariables == {b.pairs[i][1] : i \in 1..Len(b.pairs)}
        IN
        /\ Keys(op.preconditions) \cup Keys(op.effects) =
              PairVariables \cup UnguardedTargets(b)
        /\ Keys(op.effects) = UnguardedTargets(b)
        /\ PairVariables \subseteq Keys(op.preconditions)
        /\ \A i \in 1..Len(b.pairs) :
              Get(op.preconditions, b.pairs[i][1]) = b.pairs[i][2]
        /\ \A j \in 1..Len(b.effects) :
              b.effects[j][1] = 0 =>
                  /\ Get(op.effects, b.effects[j][2]) = b.effects[j][4]
                  /\ b.effects[j][3] # DONT_CARE =>
                        /\ HasKey(op.preconditions, b.effects[j][2])
                        /\ Get(op.preconditions, b.effects[j][2]) = b.effects[j][3]

\* C5's case: an operator parsed from a precondition pair, an unguarded
\* effect with pre-value -1 and a guarded effect.
C5_Witness ==
    /\ OperatorParsed
    /\ Len(LastBlock.pairs) = 1
    /\ Len(LastBlock.effects) = 2
    /\ \E j \in 1..2 : LastBlock.effects[j][1] = 0 /\ LastBlock.effects[j][3] = DONT_CARE
    /\ \E j \in 1..2 : LastBlock.effects[j][1] # 0

\* Two of the pairs name one variable.
DuplicatePair(pairs) ==
    \E i, j \in 1..Len(pairs) : i < j /\ pairs[i][1] = pairs[j][1]

\* The block names a variable twice where the parser builds one Assignment.
DuplicateKey(b) ==
    \/ b.kind \in {"rule", "operator", "goal"} /\ DuplicatePair(b.pairs)
    \/ /\ b.kind = "operator"
       /\ \E j \in 1..Len(b.effects) :
             /\ b.effects[j][1] = 0
             /\ \/ \E i \in 1..Len(b.pairs) : b.pairs[i][1] = b.effects[j][2]
                \/ \E k \in 1..Len(b.effects) :
                      k < j /\ b.effects[k][1] = 0 /\ b.effects[k][2] = b.effects[j][2]

\* C6: a block that names a variable twice aborts parsing.
C6_DuplicateKeyAborts ==
    (Len(doc) > Len(Prelude(MaxVars)) /\ DuplicateKey(LastBlock)) => pc = "failed"

\* C7: the cost of an operator the parser accepted is the number of the
\* cost line, and is not negative.
C7_CostNonNegativeInteger ==
    OperatorParsed =>
        /\ LastOperator.cost * LastBlock.cost.den = LastBlock.cost.num
        /\ LastOperator.cost >= 0

\* C11: the preconditions of a parsed operator have an entry for the
\* variable of an unguarded effect record only if the record's pre-value is
\* not -1, and no entry of them holds -1.
C11_DontCareNeverStored ==
    OperatorParsed =>
        /\ \A j \in 1..Len(LastBlock.effects) :
              (/\ LastBlock.effects[j][1] = 0
               /\ HasKey(LastOperator.preconditions, LastBlock.effects[j][2]))
                  => LastBlock.effects[j][3] # DONT_CARE
        /\ \A i \in 1..Len(LastOperator.preconditions) :
              LastOperator.preconditions[i][2] # DONT_CARE

----------------------------------------------------------------------------
\* SpecAxioms: a document declares MaxHeads + 1 boolean variables and gives
\* some of the first MaxHeads one rule each, over those variables; then
\* _handle_variables() and _handle_axioms() are called.  The last variable
\* has no rule, so that _handle_axioms() finds a state variable (line 172).

RECURSIVE Ascending(_)
Ascending(S) ==
    IF S = {} THEN <<>> ELSE <<Min(S)>> \o Ascending(S \ {Min(S)})

\* The rule bodies: every variable of a set of at most MaxPairs, "on".
Bodies ==
    {[i \in 1..Len(Ascending(S)) |-> <<Ascending(S)[i], 0>>] :
        S \in {T \in SUBSET (0..(MaxHeads - 1)) : Cardinality(T) <= MaxPairs}}

\* A rule for a head above the heads that have one.
NextRules ==
    {RuleBlock(p, <<h, 1, 0>>, TRUE) :
        p \in Bodies,
        h \in {g \in 0..(MaxHeads - 1) :
                \A i \in 1..Len(self.rules) : self.rules[i].var < g}}

ReadAxiomRule == pc = "parse" /\ Read(NextRules, {"state", "rule"})

InitAxioms == Start(ParseAll(FreshSelf, Prelude(MaxHeads + 1)).self, Prelude(MaxHeads + 1))

NextAxioms ==
    \/ ReadAxiomRule
    \/ EndOfInput
    \/ CallHandleVariables
    \/ EnterAxioms
    \/ RelaxRound
    \/ ExitAxioms

SpecAxioms == InitAxioms /\ [][NextAxioms]_vars

\* The loop of lines 187-194 stands at its test.
AtLoopTest == pc = "stratify"

\* The loop has reached its fixed point: the test of line 187 fails.
FixedPoint == AtLoopTest /\ ~is_diff(cur_V, new_V)

\* C3: the loop has stopped once it has run a round for every head: what an
\* acyclic rule set needs at most, so that a rule set that needs more is
\* cyclic and has to be refused instead.
C3_StratifierStops ==
    (AtLoopTest /\ rounds > Len(self.axiom_edges)) => ~is_diff(cur_V, new_V)

\* The derived variables in the preconditions of the rules with head h.
DerivedIn(h) ==
    UNION {Keys(self.rules[i].preconditions) \cap Keys(self.axiom_heads) :
            i \in {k \in 1..Len(self.rules) : self.rules[k].var = h}}

\* C4: at the fixed point every head has layer 1 + the largest layer of the
\* derived variables in its rules (0 if there is none), so each of them has
\* a smaller layer than the head.
C4_LayersWellFounded ==
    FixedPoint =>
        \A h \in Keys(self.axiom_heads) :
            /\ Get(new_V, h) = 1 + Max({0} \cup {Get(new_V, v) : v \in DerivedIn(h)})
            /\ \A v \in DerivedIn(h) : Get(new_V, v) < Get(new_V, h)

\* C4's case: the fixed point of a chain of three heads.
C4_Witness ==
    /\ FixedPoint
    /\ \E h \in Keys(self.axiom_heads) : Get(new_V, h) = 3

----------------------------------------------------------------------------
\* SpecGoal: a document declares MaxVars + 1 boolean variables, a goal and
\* for some of the first MaxVars a rule without precondition; then
\* _handle_variables(), _handle_axioms() and _handle_goal() are called.

GoalVars == 0..MaxVars

EncGoals == {GoalBlock(p, TRUE) : p \in SeqsUpTo(GoalVars \X {0, 1}, MaxPairs)}

\* A rule without precondition for a head above the heads that have one.
TrivialRules ==
    {RuleBlock(<<>>, <<h, 1, 0>>, TRUE) :
        h \in {g \in 0..(MaxVars - 1) :
                \A i \in 1..Len(self.rules) : self.rules[i].var < g}}

ReadEncGoal == pc = "parse" /\ Read(EncGoals, {"state"})

ReadTrivialRule == pc = "parse" /\ Read(TrivialRules, {"goal", "rule"})

InitGoal == Start(ParseAll(FreshSelf, Prelude(MaxVars + 1)).self, Prelude(MaxVars + 1))

NextGoal ==
    \/ ReadEncGoal
    \/ ReadTrivialRule
    \/ EndOfInput
    \/ CallHandleVariables
    \/ EnterAxioms
    \/ RelaxRound
    \/ ExitAxioms
    \/ CallHandleGoal

SpecGoal == InitGoal /\ [][NextGoal]_vars

\* The SAS+ variable a handle stands for.
SasVar(h) == CHOOSE v \in Keys(self.didp_variables) : Get(self.didp_variables, v) = h

\* A condition in a full assignment a of the SAS+ variables.  A derived
\* variable has value 0 ("on") exactly when its boolean function is true.
Holds(c, a) ==
    CASE c.op = "eq" -> a[SasVar(c.h)] = c.val
      [] c.op = "ref" -> a[SasVar(c.h)] = 0
      [] c.op = "not" -> a[SasVar(c.h)] # 0

\* The base case _handle_goal() has added.
BaseCase == self.model.base_cases[Len(self.model.base_cases)]

\* C2: the base case has one condition per goal entry - equality for a
\* primitive variable, the boolean function for a derived variable with
\* goal value 0, its negation with goal value 1 - so a full assignment
\* satisfies it exactly if it agrees with the goal on every key.
C2_GoalFaithful ==
    pc = "goal" =>
        /\ Len(BaseCase) = Len(self.goal)
        /\ \A k \in 1..Len(self.goal) :
              LET var == self.goal[k][1]
                  val == self.goal[k][2]
                  h == Get(self.didp_variables, var)
              IN BaseCase[k] =
                    IF ~HasKey(self.axiom_heads, var) THEN Eq(h, val)
                    ELSE IF val = 0 THEN Ref(h) ELSE Not(h)
        /\ \A a \in [GoalVars -> {0, 1}] :
              (\A k \in 1..Len(BaseCase) : Holds(BaseCase[k], a))
                  <=> (\A k \in 1..Len(self.goal) : a[self.goal[k][1]] = self.goal[k][2])

----------------------------------------------------------------------------
\* SpecOperators: a document declares MaxVars + 1 boolean variables, at
\* most MaxOps operators and possibly a rule without precondition for
\* var0; then _handle_variables(), _handle_axioms() and
\* _handle_operators() are called.

EncOperators ==
    {OperatorBlock(n, p, e, One, TRUE) :
        n \in {"a", "b"},
        p \in {<<>>, << <<0, 1>>, <<1, -1>> >>, << <<0, 0>>, <<1, 0>> >>},
        e \in {<<>>, << <<0, MaxVars, -1, 1>> >>}}
        \cup {OperatorBlock("b", <<>>, << <<0, 0, 0, 1>> >>, [num |-> 4, den |-> 2], TRUE)}

ReadEncOperator ==
    /\ Len(self.operators) < MaxOps
    /\ Read(EncOperators, {"state", "operator"})

ReadHeadRule ==
    /\ pc = "parse"
    /\ Read({RuleBlock(<<>>, <<0, 1, 0>>, TRUE)}, {"state", "operator"})

InitOperators == Start(ParseAll(FreshSelf, Prelude(MaxVars + 1)).self, Prelude(MaxVars + 1))

NextOperators ==
    \/ ReadEncOperator
    \/ ReadHeadRule
    \/ EndOfInput
    \/ CallHandleVariables
    \/ EnterAxioms
    \/ RelaxRound
    \/ ExitAxioms
    \/ CallHandleOperators

SpecOperators == InitOperators /\ [][NextOperators]_vars

\* The precondition entries of an operator that constrain a variable.
Constraining(op) == SelectSeq(op.preconditions, LAMBDA e : e[2] # DONT_CARE)

\* C10: when _handle_operators() has returned, the Model holds one
\* transition per operator, in order; each has the operator's name, the cost
\* "operator cost + state cost", one condition per precondition entry whose
\* value is not -1 (equality for a primitive variable, the boolean function
\* itself for a derived one) and one assignment per effect entry.
C10_OperatorsLowered ==
    pc = "operators" =>
        /\ Len(self.model.transitions) = Len(self.operators)
        /\ \A k \in 1..Len(self.operators) :
              LET op == self.operators[k]
                  tr == self.model.transitions[k]
                  pre == Constraining(op)
              IN
              /\ tr.name = op.name
              /\ tr.cost = [add |-> op.cost, state_cost |-> TRUE]
              /\ Len(tr.preconditions) = Len(pre)
              /\ \A i \in 1..Len(pre) :
                    LET h == Get(self.didp_variables, pre[i][1]) IN
                    tr.preconditions[i] =
                        IF HasKey(self.axiom_heads, pre[i][1]) THEN Ref(h)
                        ELSE Eq(h, pre[i][2])
              /\ Len(tr.effects) = Len(op.effects)
              /\ \A i \in 1..Len(op.effects) :
                    tr.effects[i] =
                        <<Get(self.didp_variables, op.effects[i][1]), op.effects[i][2]>>

\* C10's case: two operators of one name lowered, the first with a derived
\* precondition variable, an entry of value -1 and an effect.
C10_Witness ==
    /\ pc = "operators"
    /\ Len(self.operators) = 2
    /\ self.operators[1].name = self.operators[2].name
    /\ self.operators[1] # self.operators[2]
    /\ \E i \in 1..Len(self.operators[1].preconditions) :
          HasKey(self.axiom_heads, self.operators[1].preconditions[i][1])
    /\ \E i \in 1..Len(self.operators[1].preconditions) :
          self.operators[1].preconditions[i][2] = DONT_CARE
    /\ self.operators[1].effects # <<>>

----------------------------------------------------------------------------
\* SpecDefine: a document declares MaxVars + 1 boolean variables and gives
\* var0 and var1 at most MaxAxioms rules between them, in any order; a rule
\* tests the other of the two, the last variable (which has no rule, so it
\* is a state variable), both or nothing, each for "on" (0) or "off" (1).
\* Then _handle_variables() and _handle_axioms() are called.

\* The precondition lines of a rule for head h: ascending variables.
DefineBodies(h) ==
    LET atoms == {<<1 - h, v>> : v \in {0, 1}} \cup {<<MaxVars, v>> : v \in {0, 1}} IN
    {b \in SeqsUpTo(atoms, MaxPairs) :
        \A i, j \in 1..Len(b) : i < j => b[i][1] < b[j][1]}

DefineRules ==
    UNION {{RuleBlock(p, <<h, 1, 0>>, TRUE) : p \in DefineBodies(h)} : h \in {0, 1}}

ReadDefineRule ==
    /\ Len(self.rules) < MaxAxioms
    /\ Read(DefineRules, {"state", "rule"})

InitDefine == Start(ParseAll(FreshSelf, Prelude(MaxVars + 1)).self, Prelude(MaxVars + 1))

NextDefine ==
    \/ ReadDefineRule
    \/ EndOfInput
    \/ CallHandleVariables
    \/ EnterAxioms
    \/ RelaxRound
    \/ ExitAxioms

SpecDefine == InitDefine /\ [][NextDefine]_vars

\* The heads an acyclic rule set lets h depend on, through n more rules.
RECURSIVE Closure(_, _, _)
Closure(edges, S, n) ==
    IF n = 0 THEN S
    ELSE Closure(edges,
                 S \cup UNION {Get(edges, v) \cap Keys(edges) : v \in S},
                 n - 1)

\* No head depends on itself, directly or through other heads.
Acyclic(edges) ==
    \A h \in Keys(edges) :
        h \notin Closure(edges, Get(edges, h) \cap Keys(edges), Len(edges))

\* _handle_axioms() has been called and has ended.
AxiomsEnded == pc \in {"axioms", "raised"}

\* The rules with head h, in the order of the document.
RulesOf(h) == SelectSeq(self.rules, LAMBDA r : r.var = h)

\* What the object holds for variable v, and for a head: the number and
\* the trigger of its boolean state function, and its layer.
Handle(v) == Get(self.didp_variables, v)

Definition(h) == self.model.bool_funs[Handle(h).id + 1]

Layer(h) == Get(new_V, h)

\* The test a rule makes of variable `var` having value `val`.
Test(var, val) ==
    IF ~HasKey(self.axiom_heads, var) THEN Eq(Handle(var), val)
    ELSE IF val = 0 THEN Ref(Handle(var))
    ELSE Not(Handle(var))

\* The definition the rules give head h.
Stated(h) ==
    IF \E i \in 1..Len(RulesOf(h)) : RulesOf(h)[i].preconditions = <<>>
    THEN [trivial |-> TRUE, bodies |-> <<>>]
    ELSE [trivial |-> FALSE,
          bodies |->
              [i \in 1..Len(RulesOf(h)) |->
                  [j \in 1..Len(RulesOf(h)[i].preconditions) |->
                      Test(RulesOf(h)[i].preconditions[j][1],
                           RulesOf(h)[i].preconditions[j][2])]]]

\* The boolean state functions a trigger refers to.
Referenced(trigger) ==
    UNION {{trigger.bodies[i][j].h.id :
                j \in {k \in 1..Len(trigger.bodies[i]) :
                        trigger.bodies[i][k].op \in {"ref", "not"}}} :
            i \in 1..Len(trigger.bodies)}

\* C12: when _handle_axioms() ends on an acyclic rule set it has returned,
\* and every head has one boolean state function, heads of a lower layer
\* before heads of a higher one and no layer between the lowest and the
\* highest without a head.  The function of head h is TRUE if a rule of h
\* has no precondition, and otherwise the disjunction over the rules of h
\* of the conjunction of the rule's tests: equality for a primitive
\* variable, the function of a derived variable tested for 0, its negation
\* when tested for 1.  Every function it refers to is of a lower layer and
\* was built before it.
C12_StratifiedDefinitions ==
    (AxiomsEnded /\ Acyclic(self.axiom_edges)) =>
        LET heads == Keys(self.axiom_heads)
            funs == self.model.bool_funs
        IN
        /\ pc = "axioms"
        /\ Len(funs) = Cardinality(heads)
        /\ \A h \in heads :
              /\ HasKey(self.didp_variables, h)
              /\ Handle(h).k = "fun"
              /\ Handle(h).id \in 0..(Len(funs) - 1)
              /\ Definition(h) = Stated(h)
              /\ \A g \in heads :
                    /\ Handle(g).id < Handle(h).id => Layer(g) <= Layer(h)
                    /\ Handle(g).id = Handle(h).id => g = h
                    /\ Handle(g).id \in Referenced(Definition(h)) =>
                          /\ Layer(g) < Layer(h)
                          /\ Handle(g).id < Handle(h).id
              /\ Referenced(Definition(h)) \subseteq {Handle(g).id : g \in heads}
        /\ \A h, g \in heads :
              \A l \in Layer(g)..Layer(h) : \E f \in heads : Layer(f) = l

\* C12's case: var0 is given two rules before var1 gets one; its function,
\* built after that of var1, is a disjunction with the negation of var1's
\* function and a test of the state variable in one conjunction.
C12_Witness ==
    /\ pc = "axioms"
    /\ Len(self.rules) = 3
    /\ self.rules[1].var = 0
    /\ Len(RulesOf(0)) = 2
    /\ Handle(1) = BoolFun(0)
    /\ Handle(0) = BoolFun(1)
    /\ Layer(0) = 2
    /\ Len(Definition(0).bodies) = 2
    /\ Definition(0).bodies[1] = <<Not(BoolFun(0)), Eq(Handle(MaxVars), 0)>>
    /\ Definition(1) # TrueTrigger

\* C12's other case: a head with a rule without precondition after a rule
\* with one has the function TRUE.
C12_WitnessTrivial ==
    /\ pc = "axioms"
    /\ Len(RulesOf(0)) = 2
    /\ RulesOf(0)[1].preconditions # <<>>
    /\ RulesOf(0)[2].preconditions = <<>>
    /\ Definition(0) = TrueTrigger

====
